---- MODULE Spec2Model ----
(***************************************************************************)
(* AFGC Issuance Pack Generator v1.2 (scripts/generate_issuance_pack.py).  *)
(*                                                                         *)
(* The script is run repeatedly.  Every run queries the Airtable registry  *)
(* for pending certifications, writes four files per certification under   *)
(* packs/<Certification_ID>/ in the working tree, commits and pushes       *)
(* packs/ once, and then updates every registry record.                    *)
(*                                                                         *)
(* Modelled state: the registry table, the working tree under packs/, the  *)
(* local git HEAD, the pushed remote (what GitHub Pages serves), the wall  *)
(* clock, and the locals of main().  File contents are symbolic values     *)
(* that carry what the code writes into them; SHA-256 is an injective      *)
(* tag over those values.  File sizes and the Issuance_Dispatch_At stamp   *)
(* are left out: no decision of the script reads them.                     *)
(***************************************************************************)
EXTENDS Integers, Sequences, FiniteSets, TLC

\* ------------------------------------------------------------------ bounds
NumRecords == 2     \* records in the Airtable table
MaxRuns == 2        \* invocations of the script
MaxFaults == 2      \* steps that fail (build, git, table.update), over all runs

Records == 1..NumRecords

\* --------------------------------------------------------------- constants
Absent == <<>>                  \* a file that does not exist / a field not set
Unknown == "Unknown"            \* default of fields.get('Certification_ID', ...)
CertIdPool == <<"CERT-001", "CERT-002", "CERT-003", "CERT-004">>
NoError == ""                   \* None / empty message / field never written
GitCommitFailed == "Git commit failed"

\* ------------------------------------------------------------ file contents
Sha256(bytes) == <<"sha256", bytes>>

PdfName(cert_id) == <<cert_id, "_issuance_pack.pdf">>
ZipName(cert_id) == <<cert_id, "_issuance_pack.zip">>
ContentsName == <<"", "CONTENTS_MANIFEST.txt">>
MasterName == <<"", "MANIFEST.txt">>

\* The PDF embeds "Generated: <now>" and xmp:CreateDate, so its bytes differ
\* for every call; form is "raw" after doc.build, "pdfa" after pikepdf.
PdfBytes(cert_id, t, form) == <<"pdf", cert_id, t, form>>
ContentsBytes(cert_id, pdf_name, pdf_sha256, timestamp) ==
    <<"contents", cert_id, pdf_name, pdf_sha256, timestamp>>
MasterBytes(cert_id, pdf_sha256, zip_sha256, timestamp) ==
    <<"master", cert_id, pdf_sha256, zip_sha256, timestamp>>
ZipBytes(members) == <<"zip", members>>

EmptyDir == [pdf |-> Absent, contents |-> Absent, zip |-> Absent, master |-> Absent]

Namespaces == {CertIdPool[r] : r \in Records} \cup {Unknown}

\* ------------------------------------------------------------------- state
VARIABLES
    table,          \* Airtable: record id -> fields
    tree,           \* working tree: packs/<cert_id>/ -> the four files
    head,           \* packs/ as of the local git HEAD
    remote,         \* packs/ as pushed (the published store)
    clock,          \* datetime.now(), one tick per reading
    runs,           \* invocations of the script so far
    pc,             \* position of main()
    dryRun,         \* DRY_RUN of the current process
    pending,        \* main: pending (record ids, in table order)
    idx,            \* main: position of the for loop over pending
    cur,            \* main: locals of the current loop iteration
    generated,      \* main: generated
    failed,         \* main: failed
    commit_success, \* main: commit_success
    gidx,           \* main: position of the loop over generated
    fidx,           \* main: position of the loop over failed
    calls,          \* history: update_airtable_record calls of this run
    pushed,         \* history: git push succeeded in this run
    issued,         \* history: record id -> success updates applied, all runs
    failedStamps,   \* history: timestamps of loop iterations that raised
    faults,         \* history: steps that have failed so far
    statusLost,     \* history: records whose success update raised after a push
    gitCalls,       \* history: runs of the git commands in this run
    steps           \* history: files written by the current loop iteration

vars == <<table, tree, head, remote, clock, runs, pc, dryRun, pending, idx, cur,
          generated, failed, commit_success, gidx, fidx, calls, pushed, issued,
          failedStamps, faults, statusLost, gitCalls, steps>>

stores == <<tree, head, remote>>
loops == <<pending, idx, cur, generated, failed, commit_success, gidx, fidx>>
history == <<statusLost, gitCalls, steps>>

NoCur == [record_id |-> 0, cert_id |-> "", timestamp |-> 0,
          pdf_sha256 |-> Absent, files_to_zip |-> <<>>, zip_sha256 |-> Absent]

\* ------------------------------------------------------------ the registry
\* fields.get('Certification_ID', 'Unknown')
CertIdOf(fields) ==
    IF fields.Certification_ID = "" THEN Unknown ELSE fields.Certification_ID

\* AND({Status}='Active', {Issue_Now}=TRUE(), {Issuance_Pack_Generated}!=TRUE())
IsPending(fields) ==
    /\ fields.Status = "Active"
    /\ fields.Issue_Now = TRUE
    /\ fields.Issuance_Pack_Generated # TRUE

\* table.all(formula=formula): the matching records, in table order
GetPendingCertifications(tbl) ==
    SelectSeq([i \in 1..NumRecords |-> i], LAMBDA r : IsPending(tbl[r]))

PackUrl(cert_id, name) == <<"https://ttony106-source.github.io/afgc-registry", "packs", cert_id, name>>

\* the success branch of update_airtable_record
SuccessUpdate(fields, cert_id, pdf_sha256, zip_sha256) ==
    [fields EXCEPT !.Issuance_Pack_Generated = TRUE,
                   !.Issuance_Pack_URL = PackUrl(cert_id, PdfName(cert_id)),
                   !.Issuance_Pack_SHA256 = pdf_sha256,
                   !.Issuance_Pack_ZIP_URL = PackUrl(cert_id, ZipName(cert_id)),
                   !.Issuance_Pack_ZIP_SHA256 = zip_sha256,
                   !.Issuance_Dispatch_Status = "Sent",
                   !.Issue_Now = FALSE]

\* C7 mutant: the failure branch also clears the request flag
FailureUpdateClearsFlag(fields, error_msg) ==
    [fields EXCEPT !.Issuance_Dispatch_Status = "Failed",
                   !.Issuance_Error_Log =
                       IF error_msg = NoError THEN "Unknown error" ELSE error_msg,
                   !.Issue_Now = FALSE]

\* the failure branch of update_airtable_record
FailureUpdate(fields, error_msg) ==
    [fields EXCEPT !.Issuance_Dispatch_Status = "Failed",
                   !.Issuance_Error_Log =
                       IF error_msg = NoError THEN "Unknown error" ELSE error_msg]

\* C6 mutant: the two branches are swapped
UpdateAirtableRecordSwapped(tbl, dry, record_id, cert_id, pdf_sha256, zip_sha256, success, error_msg) ==
    IF dry THEN tbl
    ELSE IF ~success
         THEN [tbl EXCEPT ![record_id] =
                   SuccessUpdate(tbl[record_id], cert_id, pdf_sha256, zip_sha256)]
         ELSE [tbl EXCEPT ![record_id] = FailureUpdate(tbl[record_id], error_msg)]

\* C19 mutant: the dry-run flag is not looked at
UpdateAirtableRecordNoDryCheck(tbl, dry, record_id, cert_id, pdf_sha256, zip_sha256, success, error_msg) ==
    IF success
    THEN [tbl EXCEPT ![record_id] =
              SuccessUpdate(tbl[record_id], cert_id, pdf_sha256, zip_sha256)]
    ELSE [tbl EXCEPT ![record_id] = FailureUpdate(tbl[record_id], error_msg)]

\* update_airtable_record, when table.update does not raise
UpdateAirtableRecord(tbl, dry, record_id, cert_id, pdf_sha256, zip_sha256, success, error_msg) ==
    IF dry THEN tbl
    ELSE IF success
         THEN [tbl EXCEPT ![record_id] =
                   SuccessUpdate(tbl[record_id], cert_id, pdf_sha256, zip_sha256)]
         ELSE [tbl EXCEPT ![record_id] = FailureUpdate(tbl[record_id], error_msg)]

\* ------------------------------------------------------------- the archive
\* generate_zip: the files of files_to_zip that exist, under their base names
ArcName(cert_id, slot) == IF slot = "pdf" THEN PdfName(cert_id) ELSE
                          IF slot = "contents" THEN ContentsName ELSE
                          IF slot = "zip" THEN ZipName(cert_id) ELSE MasterName

\* C11 mutant: every file of the directory is packed
GenerateZipWholeDir(dir, cert_id, files_to_zip) ==
    LET all == <<"pdf", "contents", "zip", "master">>
        present == SelectSeq(all, LAMBDA slot : dir[slot] # Absent)
    IN  ZipBytes([i \in 1..Len(present) |->
                     <<ArcName(cert_id, present[i]), dir[present[i]]>>])

GenerateZip(dir, cert_id, files_to_zip) ==
    LET present == SelectSeq(files_to_zip, LAMBDA slot : dir[slot] # Absent)
    IN  ZipBytes([i \in 1..Len(present) |->
                     <<ArcName(cert_id, present[i]), dir[present[i]]>>])

\* ---------------------------------------------------------------- the git
GitOutcomes == {"add_failed", "commit_failed", "push_failed", "ok"}

\* C2 mutant: the push is not checked
GitCommitReturnUncheckedPush(dry, changed, outcome) ==
    IF dry THEN TRUE
    ELSE IF outcome = "add_failed" THEN FALSE
    ELSE IF ~changed THEN TRUE
    ELSE outcome \in {"ok", "push_failed"}

\* C13 mutant: the return True after the push (line 230) is missing
GitCommitReturnNoReturn(dry, changed, outcome) ==
    IF dry THEN TRUE
    ELSE IF outcome = "add_failed" THEN FALSE
    ELSE IF ~changed THEN TRUE
    ELSE FALSE

\* the value git_commit_packs returns
GitCommitReturn(dry, changed, outcome) ==
    IF dry THEN TRUE
    ELSE IF outcome = "add_failed" THEN FALSE
    ELSE IF ~changed THEN TRUE
    ELSE outcome = "ok"

\* HEAD after git_commit_packs: the commit records the staged packs/
GitHeadAfter(dry, changed, outcome, tr, hd) ==
    IF ~dry /\ changed /\ outcome \in {"push_failed", "ok"} THEN tr ELSE hd

\* the remote after git_commit_packs: the push sends HEAD
GitRemoteAfter(dry, changed, outcome, tr, rm) ==
    IF ~dry /\ changed /\ outcome = "ok" THEN tr ELSE rm

\* git push ran and succeeded
GitPushed(dry, changed, outcome) == ~dry /\ changed /\ outcome = "ok"

\* ------------------------------------------------------------ construction
\* A registry in which no pack has been issued yet and an empty packs/.
NewFields(id, active, issue_now) ==
    [Certification_ID |-> id,
     Status |-> IF active THEN "Active" ELSE "Inactive",
     Issue_Now |-> issue_now,
     Issuance_Pack_Generated |-> FALSE,
     Issuance_Pack_URL |-> Absent,
     Issuance_Pack_SHA256 |-> Absent,
     Issuance_Pack_ZIP_URL |-> Absent,
     Issuance_Pack_ZIP_SHA256 |-> Absent,
     Issuance_Dispatch_Status |-> "",
     Issuance_Error_Log |-> NoError]

Init ==
    /\ \E no_id \in [Records -> BOOLEAN], inactive \in [Records -> BOOLEAN],
          not_requested \in [Records -> BOOLEAN] :
          \* the identifier is read only of records the selector returns
          /\ \A r \in Records : no_id[r] => ~inactive[r] /\ ~not_requested[r]
          /\ table = [r \in Records |->
                      NewFields(IF no_id[r] THEN "" ELSE CertIdPool[r],
                                ~inactive[r], ~not_requested[r])]
    /\ tree = [ns \in Namespaces |-> EmptyDir]
    /\ head = [ns \in Namespaces |-> EmptyDir]
    /\ remote = [ns \in Namespaces |-> EmptyDir]
    /\ clock = 1
    /\ runs = 0
    /\ pc = "idle"
    /\ dryRun = FALSE
    /\ pending = <<>>
    /\ idx = 1
    /\ cur = NoCur
    /\ generated = <<>>
    /\ failed = <<>>
    /\ commit_success = FALSE
    /\ gidx = 1
    /\ fidx = 1
    /\ calls = <<>>
    /\ pushed = FALSE
    /\ issued = [r \in Records |-> 0]
    /\ failedStamps = {}
    /\ faults = 0
    /\ statusLost = {}
    /\ gitCalls = 0
    /\ steps = <<>>

\* ------------------------------------------------------------------ main()
RunOver == {"idle", "done", "crashed"}

\* main, lines 265-288: a new process, with its DRY_RUN, queries the registry
StartProcess(dry) ==
    /\ pc \in RunOver
    /\ runs' = runs + 1
    /\ dryRun' = dry
    /\ pending' = GetPendingCertifications(table)
    /\ pc' = IF pending' = <<>> THEN "done" ELSE "loop"
    /\ idx' = 1
    /\ cur' = NoCur
    /\ generated' = <<>>
    /\ failed' = <<>>
    /\ commit_success' = FALSE
    /\ gidx' = 1
    /\ fidx' = 1
    /\ calls' = <<>>
    /\ pushed' = FALSE
    /\ gitCalls' = 0
    /\ steps' = <<>>
    /\ UNCHANGED <<faults, table, stores, clock, issued, failedStamps, statusLost>>

\* the script is started, live or as a dry run
StartRun ==
    /\ runs < MaxRuns
    /\ \E dry \in BOOLEAN : StartProcess(dry)

\* main, lines 290-300: the head of one loop iteration
BeginCert ==
    /\ pc = "loop"
    /\ idx <= Len(pending)
    /\ cur' = [NoCur EXCEPT !.record_id = pending[idx],
                            !.cert_id = CertIdOf(table[pending[idx]]),
                            !.timestamp = clock]
    /\ clock' = clock + 1
    /\ pc' = "pdf"
    /\ UNCHANGED <<faults, table, stores, runs, dryRun, pending, idx, generated, failed,
                   commit_success, gidx, fidx, calls, pushed, issued, failedStamps>>
    /\ steps' = <<>>
    /\ UNCHANGED <<statusLost, gitCalls>>

\* what generated holds after a step of the try block: the entry is appended
\* after the master manifest is written, lines 320-329
GeneratedItem(c) == [record_id |-> c.record_id, cert_id |-> c.cert_id,
                     pdf_sha256 |-> c.pdf_sha256, zip_sha256 |-> c.zip_sha256]

\* C3 mutant: the entry is appended before the archive is assembled
GeneratedAfterStepEarly(step, gen, c) ==
    IF step = "contents" THEN Append(gen, GeneratedItem(c)) ELSE gen

GeneratedAfterStep(step, gen, c) ==
    IF step = "master" THEN Append(gen, GeneratedItem(c)) ELSE gen

\* main, lines 331-333: the except clause, then the next iteration
Except(error) ==
    /\ failed' = Append(failed, [record_id |-> cur.record_id,
                                 cert_id |-> cur.cert_id, error |-> error])
    /\ failedStamps' = failedStamps \cup {cur.timestamp}
    /\ faults < MaxFaults
    /\ faults' = faults + 1
    /\ idx' = idx + 1
    /\ cur' = NoCur
    /\ pc' = "loop"

\* C18 mutant: the archive is assembled before the contents manifest is written
NextStepZipFirst(step) ==
    IF step = "pdf" THEN "zip" ELSE
    IF step = "zip" THEN "contents" ELSE
    IF step = "contents" THEN "master" ELSE "loop"

\* the order of the try block, lines 302-321
NextStep(step) ==
    IF step = "pdf" THEN "contents" ELSE
    IF step = "contents" THEN "zip" ELSE
    IF step = "zip" THEN "master" ELSE "loop"

\* generate_pdf, lines 125-207
GeneratePdf ==
    /\ pc = "pdf"
    /\ LET bytes == PdfBytes(cur.cert_id, cur.timestamp, "pdfa") IN
        /\ tree' = [tree EXCEPT ![cur.cert_id].pdf = bytes]
        /\ cur' = [cur EXCEPT !.pdf_sha256 = Sha256(bytes)]
        /\ generated' = GeneratedAfterStep("pdf", generated, cur')
    /\ pc' = NextStep("pdf")
    /\ UNCHANGED <<faults, table, head, remote, clock, runs, dryRun, pending, idx, failed,
                   commit_success, gidx, fidx, calls, pushed, issued, failedStamps>>
    /\ steps' = Append(steps, "pdf")
    /\ UNCHANGED <<statusLost, gitCalls>>

\* generate_pdf raises in doc.build (line 193): nothing is written
GeneratePdfRenderError ==
    /\ pc = "pdf"
    /\ Except("RenderError")
    /\ UNCHANGED <<table, stores, clock, runs, dryRun, pending, generated,
                   commit_success, gidx, fidx, calls, pushed, issued>>
    /\ UNCHANGED history

\* generate_pdf raises in pikepdf (lines 196-203): doc.build's output stays
GeneratePdfNormalizeError ==
    /\ pc = "pdf"
    /\ tree' = [tree EXCEPT ![cur.cert_id].pdf =
                    PdfBytes(cur.cert_id, cur.timestamp, "raw")]
    /\ Except("NormalizeError")
    /\ UNCHANGED <<table, head, remote, clock, runs, dryRun, pending, generated,
                   commit_success, gidx, fidx, calls, pushed, issued>>
    /\ UNCHANGED history

\* generate_contents_manifest, lines 54-73 (called at line 309)
GenerateContentsManifest ==
    /\ pc = "contents"
    /\ tree' = [tree EXCEPT ![cur.cert_id].contents =
                    ContentsBytes(cur.cert_id, PdfName(cur.cert_id),
                                  cur.pdf_sha256, cur.timestamp)]
    /\ generated' = GeneratedAfterStep("contents", generated, cur)
    /\ pc' = NextStep("contents")
    /\ UNCHANGED <<faults, table, head, remote, clock, runs, dryRun, pending, idx, cur,
                   failed, commit_success, gidx, fidx, calls, pushed, issued,
                   failedStamps>>
    /\ steps' = Append(steps, "contents")
    /\ UNCHANGED <<statusLost, gitCalls>>

\* generate_zip, lines 110-122 (called at lines 313-314)
GenerateZipStep ==
    /\ pc = "zip"
    /\ LET files_to_zip == <<"pdf", "contents">>
           bytes == GenerateZip(tree[cur.cert_id], cur.cert_id, files_to_zip)
       IN
        /\ tree' = [tree EXCEPT ![cur.cert_id].zip = bytes]
        /\ cur' = [cur EXCEPT !.files_to_zip = files_to_zip,
                              !.zip_sha256 = Sha256(bytes)]
        /\ generated' = GeneratedAfterStep("zip", generated, cur')
    /\ pc' = NextStep("zip")
    /\ UNCHANGED <<faults, table, head, remote, clock, runs, dryRun, pending, idx, failed,
                   commit_success, gidx, fidx, calls, pushed, issued, failedStamps>>
    /\ steps' = Append(steps, "zip")
    /\ UNCHANGED <<statusLost, gitCalls>>

\* generate_zip raises while writing (line 119): the archive opened for
\* writing at line 115 is left without members
GenerateZipError ==
    /\ pc = "zip"
    /\ tree' = [tree EXCEPT ![cur.cert_id].zip = ZipBytes(<<>>)]
    /\ Except("CodecError")
    /\ UNCHANGED <<table, head, remote, clock, runs, dryRun, pending, generated,
                   commit_success, gidx, fidx, calls, pushed, issued>>
    /\ UNCHANGED history

\* generate_master_manifest, lines 76-107, and generated.append, lines 320-329
GenerateMasterManifest ==
    /\ pc = "master"
    /\ tree' = [tree EXCEPT ![cur.cert_id].master =
                    MasterBytes(cur.cert_id, cur.pdf_sha256, cur.zip_sha256,
                                cur.timestamp)]
    /\ generated' = GeneratedAfterStep("master", generated, cur)
    /\ idx' = idx + 1
    /\ cur' = NoCur
    /\ pc' = NextStep("master")
    /\ UNCHANGED <<faults, table, head, remote, clock, runs, dryRun, pending, failed,
                   commit_success, gidx, fidx, calls, pushed, issued, failedStamps>>
    /\ steps' = Append(steps, "master")
    /\ UNCHANGED <<statusLost, gitCalls>>

\* C14 mutant: the commit runs as soon as one pack is generated
CommitPointPerEntry(i, pend, gen) == gen # <<>>

\* main, line 335: after the loop over pending, if anything was generated
CommitPoint(i, pend, gen) == i > Len(pend) /\ gen # <<>>

\* git_commit_packs, lines 210-234, called at lines 335-337
GitCommitPacks ==
    /\ pc = "loop"
    /\ CommitPoint(idx, pending, generated)
    /\ \E outcome \in GitOutcomes :
        LET changed == tree # head IN
        /\ outcome # "ok" => ~dryRun /\ faults < MaxFaults
        /\ faults' = IF outcome # "ok" THEN faults + 1 ELSE faults
        /\ commit_success' = GitCommitReturn(dryRun, changed, outcome)
        /\ head' = GitHeadAfter(dryRun, changed, outcome, tree, head)
        /\ remote' = GitRemoteAfter(dryRun, changed, outcome, tree, remote)
        /\ pushed' = GitPushed(dryRun, changed, outcome)
    /\ pc' = "update_generated"
    /\ UNCHANGED <<table, tree, clock, runs, dryRun, pending, idx, cur, generated,
                   failed, gidx, fidx, calls, issued, failedStamps>>
    /\ gitCalls' = IF dryRun THEN gitCalls ELSE gitCalls + 1
    /\ UNCHANGED <<statusLost, steps>>

\* main, line 335: nothing was generated, the commit is skipped
SkipCommit ==
    /\ pc = "loop"
    /\ idx > Len(pending)
    /\ generated = <<>>
    /\ pc' = "update_failed"
    /\ UNCHANGED <<faults, table, stores, clock, runs, dryRun, pending, idx, cur, generated,
                   failed, commit_success, gidx, fidx, calls, pushed, issued,
                   failedStamps>>
    /\ UNCHANGED history

Call(item, success, pdf_sha256, zip_sha256, error_msg, result) ==
    [record_id |-> item.record_id, cert_id |-> item.cert_id, success |-> success,
     pdf_sha256 |-> pdf_sha256, zip_sha256 |-> zip_sha256,
     error_msg |-> error_msg, result |-> result]

\* main, lines 339-345: one iteration of the loop over generated
UpdateGenerated ==
    /\ pc = "update_generated"
    /\ gidx <= Len(generated)
    /\ LET item == generated[gidx]
           error_msg == IF ~commit_success THEN GitCommitFailed ELSE NoError
       IN
        /\ table' = UpdateAirtableRecord(table, dryRun, item.record_id, item.cert_id,
                                         item.pdf_sha256, item.zip_sha256,
                                         commit_success, error_msg)
        /\ calls' = Append(calls, Call(item, commit_success, item.pdf_sha256,
                                       item.zip_sha256, error_msg,
                                       IF dryRun THEN "dry" ELSE "applied"))
        /\ issued' = IF ~dryRun /\ commit_success
                     THEN [issued EXCEPT ![item.record_id] = @ + 1] ELSE issued
    /\ gidx' = gidx + 1
    /\ UNCHANGED <<faults, stores, clock, runs, pc, dryRun, pending, idx, cur, generated,
                   failed, commit_success, fidx, pushed, failedStamps>>
    /\ UNCHANGED history

\* table.update raises inside update_airtable_record (lines 247, 258): nothing
\* in main catches it, the process ends
UpdateGeneratedRaises ==
    /\ pc = "update_generated"
    /\ gidx <= Len(generated)
    /\ ~dryRun
    /\ faults < MaxFaults
    /\ faults' = faults + 1
    /\ LET item == generated[gidx]
           error_msg == IF ~commit_success THEN GitCommitFailed ELSE NoError
       IN  calls' = Append(calls, Call(item, commit_success, item.pdf_sha256,
                                       item.zip_sha256, error_msg, "raised"))
    /\ pc' = "crashed"
    /\ UNCHANGED <<table, stores, clock, runs, dryRun, pending, idx, cur, generated,
                   failed, commit_success, gidx, fidx, pushed, issued, failedStamps>>
    /\ statusLost' = IF pushed /\ commit_success
                     THEN statusLost \cup {generated[gidx].record_id}
                                        ELSE statusLost
    /\ UNCHANGED <<gitCalls, steps>>

\* main, line 347: the loop over generated is over
GeneratedDone ==
    /\ pc = "update_generated"
    /\ gidx > Len(generated)
    /\ pc' = "update_failed"
    /\ UNCHANGED <<faults, table, stores, clock, runs, dryRun, pending, idx, cur, generated,
                   failed, commit_success, gidx, fidx, calls, pushed, issued,
                   failedStamps>>
    /\ UNCHANGED history

\* main, lines 347-349: one iteration of the loop over failed
UpdateFailed ==
    /\ pc = "update_failed"
    /\ fidx <= Len(failed)
    /\ LET item == failed[fidx] IN
        /\ table' = UpdateAirtableRecord(table, dryRun, item.record_id, item.cert_id,
                                         Absent, Absent, FALSE, item.error)
        /\ calls' = Append(calls, Call(item, FALSE, Absent, Absent, item.error,
                                       IF dryRun THEN "dry" ELSE "applied"))
    /\ fidx' = fidx + 1
    /\ UNCHANGED <<faults, stores, clock, runs, pc, dryRun, pending, idx, cur, generated,
                   failed, commit_success, gidx, pushed, issued, failedStamps>>
    /\ UNCHANGED history

UpdateFailedRaises ==
    /\ pc = "update_failed"
    /\ fidx <= Len(failed)
    /\ ~dryRun
    /\ faults < MaxFaults
    /\ faults' = faults + 1
    /\ LET item == failed[fidx] IN
        calls' = Append(calls, Call(item, FALSE, Absent, Absent, item.error, "raised"))
    /\ pc' = "crashed"
    /\ UNCHANGED <<table, stores, clock, runs, dryRun, pending, idx, cur, generated,
                   failed, commit_success, gidx, fidx, pushed, issued, failedStamps>>
    /\ UNCHANGED history

\* main, lines 351-352: the summary line, the process ends
Finish ==
    /\ pc = "update_failed"
    /\ fidx > Len(failed)
    /\ pc' = "done"
    /\ UNCHANGED <<faults, table, stores, clock, runs, dryRun, pending, idx, cur, generated,
                   failed, commit_success, gidx, fidx, calls, pushed, issued,
                   failedStamps>>
    /\ UNCHANGED history

Next ==
    \/ StartRun
    \/ BeginCert
    \/ GeneratePdf
    \/ GeneratePdfRenderError
    \/ GeneratePdfNormalizeError
    \/ GenerateContentsManifest
    \/ GenerateZipStep
    \/ GenerateZipError
    \/ GenerateMasterManifest
    \/ GitCommitPacks
    \/ SkipCommit
    \/ UpdateGenerated
    \/ UpdateGeneratedRaises
    \/ GeneratedDone
    \/ UpdateFailed
    \/ UpdateFailedRaises
    \/ Finish

Spec == Init /\ [][Next]_vars

\* ---------------------------------------------------------------- liveness
\* The schedule keeps starting live runs; main runs to its end once started.
\* At most MaxFaults steps fail, so one run more than that is enough for a
\* run in which the renderer, the transport and the registry all succeed.
LiveRuns == MaxFaults + 1

StartLiveRun ==
    /\ runs < LiveRuns
    /\ StartProcess(FALSE)

LiveNext ==
    \/ StartLiveRun
    \/ BeginCert
    \/ GeneratePdf
    \/ GeneratePdfRenderError
    \/ GeneratePdfNormalizeError
    \/ GenerateContentsManifest
    \/ GenerateZipStep
    \/ GenerateZipError
    \/ GenerateMasterManifest
    \/ GitCommitPacks
    \/ SkipCommit
    \/ UpdateGenerated
    \/ UpdateGeneratedRaises
    \/ GeneratedDone
    \/ UpdateFailed
    \/ UpdateFailedRaises
    \/ Finish

LiveSpec == Init /\ [][LiveNext]_vars /\ WF_vars(LiveNext)

\* ------------------------------------------------- generate_zip on its own
\* generate_zip called on a directory in which any of the document and the
\* two manifests may be missing, with any list of them as files_to_zip.
ZipSlots == {"pdf", "contents", "master"}
FileLists ==
    {l \in UNION {[1..n -> ZipSlots] : n \in 0..Cardinality(ZipSlots)} :
        \A i, j \in 1..Len(l) : i # j => l[i] # l[j]}

ZipInit ==
    /\ \E cert_id \in Namespaces, has \in [ZipSlots -> BOOLEAN], files \in FileLists :
        LET pdf == PdfBytes(cert_id, 1, "pdfa") IN
        /\ tree = [ns \in Namespaces |->
                     IF ns # cert_id THEN EmptyDir
                     ELSE [pdf |-> IF has["pdf"] THEN pdf ELSE Absent,
                           contents |-> IF has["contents"]
                                        THEN ContentsBytes(cert_id, PdfName(cert_id),
                                                           Sha256(pdf), 1)
                                        ELSE Absent,
                           zip |-> Absent,
                           master |-> IF has["master"]
                                      THEN MasterBytes(cert_id, Sha256(pdf), Absent, 1)
                                      ELSE Absent]]
        /\ cur = [NoCur EXCEPT !.cert_id = cert_id, !.timestamp = 1,
                               !.files_to_zip = files]
    /\ table = [r \in Records |-> NewFields(CertIdPool[r], TRUE, TRUE)]
    /\ head = [ns \in Namespaces |-> EmptyDir]
    /\ remote = [ns \in Namespaces |-> EmptyDir]
    /\ clock = 1
    /\ runs = 0
    /\ pc = "zip_call"
    /\ dryRun = FALSE
    /\ pending = <<>>
    /\ idx = 1
    /\ generated = <<>>
    /\ failed = <<>>
    /\ commit_success = FALSE
    /\ gidx = 1
    /\ fidx = 1
    /\ calls = <<>>
    /\ pushed = FALSE
    /\ issued = [r \in Records |-> 0]
    /\ failedStamps = {}
    /\ faults = 0
    /\ statusLost = {}
    /\ gitCalls = 0
    /\ steps = <<>>

\* generate_zip, lines 110-122: the archive is written and digested
ZipCall ==
    /\ pc = "zip_call"
    /\ LET bytes == GenerateZip(tree[cur.cert_id], cur.cert_id, cur.files_to_zip) IN
        /\ tree' = [tree EXCEPT ![cur.cert_id].zip = bytes]
        /\ cur' = [cur EXCEPT !.zip_sha256 = Sha256(bytes)]
    /\ pc' = "zip_done"
    /\ UNCHANGED <<table, head, remote, clock, runs, dryRun, pending, idx, generated,
                   failed, commit_success, gidx, fidx, calls, pushed, issued,
                   failedStamps, faults, history>>

ZipNext == ZipCall

ZipSpec == ZipInit /\ [][ZipNext]_vars

\* ================================================================== claims
Range(seq) == {seq[i] : i \in 1..Len(seq)}
Selected == Range(pending)
Complete(dir) ==
    dir.pdf # Absent /\ dir.contents # Absent /\ dir.zip # Absent /\ dir.master # Absent
CallsOf(r) == {i \in 1..Len(calls) : calls[i].record_id = r}
RunEnded == runs > 0 /\ pc \in {"done", "crashed"}

\* C1: once the published store holds a complete pack in the namespace of a
\* selected entry, no step changes any file of that namespace in the store.
C1_NoOverwrite ==
    [][\A r \in Selected :
          LET ns == CertIdOf(table[r]) IN
          Complete(remote[ns]) => remote'[ns] = remote[ns]]_vars

\* C2: a record is given the success outcome in a run only after the git push
\* of that run succeeded and the record's namespace, complete, is in the
\* pushed store as it is in the working tree.
C2_StatusAfterPublish ==
    \A i \in 1..Len(calls) :
        (calls[i].success /\ calls[i].result = "applied") =>
            /\ pushed
            /\ Complete(remote[calls[i].cert_id])
            /\ remote[calls[i].cert_id] = tree[calls[i].cert_id]
            /\ table[calls[i].record_id].Issuance_Dispatch_Status = "Sent"

C2_Witness ==
    \E i \in 1..Len(calls) : calls[i].success /\ calls[i].result = "applied"

\* C3: in a run the status call is made at most once for each record: no
\* record is in both generated and failed, and no record has two calls.
C3_AtMostOneCall ==
    /\ \A r \in Records : Cardinality(CallsOf(r)) <= 1
    /\ \A i \in 1..Len(generated), j \in 1..Len(failed) :
           generated[i].record_id # failed[j].record_id
    /\ \A i, j \in 1..Len(generated) :
           i # j => generated[i].record_id # generated[j].record_id
    /\ \A i, j \in 1..Len(failed) :
           i # j => failed[i].record_id # failed[j].record_id

C3_Witness ==
    /\ pc = "done"
    /\ ~dryRun
    /\ Len(generated) >= 1
    /\ Len(failed) >= 1
    /\ Len(calls) = Len(generated) + Len(failed)

\* C4: when a run is over, every selected record has had its status call,
\* exactly one, also when the call of another record failed.
C4_EveryEntryTerminal ==
    RunEnded => \A r \in Selected : Cardinality(CallsOf(r)) = 1

\* C5: when a run is over and its commit or push failed, every record of
\* generated has had the failure call with the detail 'Git commit failed',
\* and no record has had a success call.
C5_BatchFailure ==
    (RunEnded /\ generated # <<>> /\ ~commit_success) =>
        /\ \A g \in Range(generated) :
               \E i \in CallsOf(g.record_id) :
                   ~calls[i].success /\ calls[i].error_msg = GitCommitFailed
        /\ \A i \in 1..Len(calls) : ~calls[i].success

\* C6: a record that was given the success outcome does not match the
\* selector's formula any more, is in no later run's pending list, and is
\* given the success outcome once only.
C6_NeverReselected ==
    \A r \in Records :
        issued[r] >= 1 =>
            /\ ~IsPending(table[r])
            /\ issued[r] = 1
            /\ r \in Selected =>
                   \E i \in CallsOf(r) : calls[i].success /\ calls[i].result = "applied"

C6_Witness ==
    /\ runs = 2
    /\ pc = "loop"
    /\ Selected # {}
    /\ \E r \in Records : issued[r] = 1 /\ r \notin Selected

\* C7: a record whose last outcome is the failure outcome has an error
\* detail, keeps Issue_Now set and Issuance_Pack_Generated unset, and is in
\* the pending list of the next run.
C7_FailureRetried ==
    [][\A r \in Records :
          /\ table'[r].Issuance_Dispatch_Status = "Failed" =>
                 /\ table'[r].Issuance_Error_Log # NoError
                 /\ IsPending(table'[r])
          /\ (table[r].Issuance_Dispatch_Status = "Failed" /\ runs' = runs + 1) =>
                 r \in Range(pending')]_vars

C7_Witness ==
    /\ runs = 2
    /\ pc = "loop"
    /\ idx = 1
    /\ \E r \in Selected : table[r].Issuance_Dispatch_Status = "Failed"

\* the timestamps of the loop iterations that wrote the files of a directory
Stamps(dir) ==
    (IF dir.pdf # Absent THEN {dir.pdf[3]} ELSE {}) \cup
    (IF dir.contents # Absent THEN {dir.contents[5]} ELSE {}) \cup
    (IF dir.master # Absent THEN {dir.master[5]} ELSE {})

\* C8: no file written by a loop iteration that raised is in the pushed store.
C8_FailedBuildNotPublished ==
    \A ns \in Namespaces : Stamps(remote[ns]) \cap failedStamps = {}

\* C9: after the push of a run, for every record of generated the pushed
\* namespace holds a document whose digest is the one in the contents
\* manifest and in the master manifest, the archive holds that document, and
\* the archive's digest is the one in the master manifest.
C9_HashChain ==
    pushed =>
        \A g \in Range(generated) :
            LET dir == remote[g.cert_id] IN
            /\ Complete(dir)
            /\ dir.contents[4] = Sha256(dir.pdf)
            /\ dir.master[3] = Sha256(dir.pdf)
            /\ Len(dir.zip[2]) >= 1
            /\ dir.zip[2][1] = <<PdfName(g.cert_id), dir.pdf>>
            /\ dir.master[4] = Sha256(dir.zip)

\* C10: the digests of every applied success call are the digests of the
\* document and of the archive in the record's namespace of the pushed store.
C10_RecordedDigests ==
    \A i \in 1..Len(calls) :
        (calls[i].success /\ calls[i].result = "applied") =>
            /\ calls[i].pdf_sha256 = Sha256(remote[calls[i].cert_id].pdf)
            /\ calls[i].zip_sha256 = Sha256(remote[calls[i].cert_id].zip)

\* the member names of an archive, in order
ArchiveNames(zip) == [i \in 1..Len(zip[2]) |-> zip[2][i][1]]

\* C11: every archive in the working tree has no member named MANIFEST.txt
\* and does not contain itself, and the member list of every archive that
\* generate_zip returned is the document followed by CONTENTS_MANIFEST.txt.
C11_ArchiveFileList ==
    /\ \A ns \in Namespaces :
           tree[ns].zip # Absent =>
               \A i \in 1..Len(tree[ns].zip[2]) :
                   ArchiveNames(tree[ns].zip)[i] \notin {MasterName, ZipName(ns)}
    /\ pc = "master" =>
           ArchiveNames(tree[cur.cert_id].zip) = <<PdfName(cur.cert_id), ContentsName>>
    /\ \A g \in Range(generated) :
           ArchiveNames(g.zip_sha256[2]) = <<PdfName(g.cert_id), ContentsName>>

\* an archive has just been assembled in a directory that already held a
\* master manifest and an archive
C11_Witness ==
    /\ pc = "master"
    /\ runs = 2
    /\ tree[cur.cert_id].master # Absent
    /\ head[cur.cert_id].zip # Absent

\* C12: in a run after the one whose push succeeded and whose success update
\* raised for a record, the loop iteration of that record writes no file of
\* the record's directory (no re-render, no new artifact).
C12_RetryOnlyStatus ==
    [][\A r \in statusLost :
          cur.record_id = r => tree'[cur.cert_id] = tree[cur.cert_id]]_vars

\* C13: under LiveSpec every pending record is eventually given the success
\* outcome, whatever failed in earlier runs: a record stops being pending
\* only in the step that gives it the success outcome, and from some point on
\* no record is pending.
C13_EventuallyIssued ==
    /\ [][\A r \in Records :
             (IsPending(table[r]) /\ ~IsPending(table'[r])) =>
                 issued'[r] = issued[r] + 1]_vars
    /\ <>[](\A r \in Records : ~IsPending(table[r]))

\* a record whose success update was lost after a push has been issued by a
\* later run over its published directory
C13_Witness ==
    \E r \in statusLost : issued[r] = 1 /\ table[r].Issuance_Dispatch_Status = "Sent"

\* C14: in a run the git commands run at most once, only after the loop over
\* pending has put every selected record in generated or in failed, and a
\* status call for a record of generated is made only after git_commit_packs
\* has returned, with its result.
C14_PublishBarrier ==
    /\ gitCalls <= 1
    /\ gitCalls = 1 =>
           /\ idx > Len(pending)
           /\ Len(generated) + Len(failed) = Len(pending)
           /\ pc \in {"update_generated", "update_failed", "done", "crashed"}
    /\ \A i \in 1..Len(calls) :
           (\E g \in Range(generated) : g.record_id = calls[i].record_id) =>
               /\ pc \in {"update_generated", "update_failed", "done", "crashed"}
               /\ ~dryRun => gitCalls = 1
               /\ calls[i].success = commit_success

C14_Witness ==
    /\ gitCalls = 1
    /\ Len(pending) >= 2
    /\ Len(generated) >= 1
    /\ Len(calls) >= 1

\* C15: generate_zip returns an archive and its digest only if every file of
\* files_to_zip was there when the archive was assembled.
C15_AbsentInputFails ==
    pc = "zip_done" =>
        \A i \in 1..Len(cur.files_to_zip) :
            tree[cur.cert_id][cur.files_to_zip[i]] # Absent

\* C16: within a run, no two records of generated have the same namespace,
\* and the document and the archive in the namespace of every record of
\* generated are still the ones whose digests were taken for it.
C16_NamespaceIsolation ==
    /\ \A i, j \in 1..Len(generated) :
           i # j => generated[i].cert_id # generated[j].cert_id
    /\ \A g \in Range(generated) :
           /\ Sha256(tree[g.cert_id].pdf) = g.pdf_sha256
           /\ Sha256(tree[g.cert_id].zip) = g.zip_sha256

\* C17: when a run in which some record failed to build or package is over,
\* every selected record is in generated or in failed, every failed record
\* has had the failure call with its own error, every generated record has
\* had a status call that does not carry a failed record's error, and the
\* generated records went through the one commit of the run.
C17_FailureIsolation ==
    (RunEnded /\ failed # <<>>) =>
        /\ Len(generated) + Len(failed) = Len(pending)
        /\ \A f \in Range(failed) :
               \E i \in CallsOf(f.record_id) :
                   ~calls[i].success /\ calls[i].error_msg = f.error
        /\ \A g \in Range(generated) :
               \E i \in CallsOf(g.record_id) :
                   calls[i].error_msg \notin {f.error : f \in Range(failed)}
        /\ (generated # <<>> /\ ~dryRun) => gitCalls = 1

\* the order of the four steps
StepOrder == <<"pdf", "contents", "zip", "master">>

\* C18: the steps taken so far for the record in hand are an initial part of
\* document, contents manifest, archive, master manifest; when the archive is
\* about to be assembled the contents manifest has been written and the
\* master manifest has not, and when the master manifest is about to be
\* written the archive's digest exists.
C18_FixedOrder ==
    /\ Len(steps) <= Len(StepOrder)
    /\ \A i \in 1..Len(steps) : steps[i] = StepOrder[i]
    /\ pc = "zip" => steps = <<"pdf", "contents">>
    /\ pc = "master" => cur.zip_sha256 # Absent /\ cur.pdf_sha256 # Absent
    /\ pc = "contents" => "zip" \notin Range(steps)
C18_Witness == steps = StepOrder /\ Len(generated) >= 2

\* C19: every step of a dry run, its start included, leaves the table, the
\* local repository and the remote as they are, makes no git call, and
\* leaves the same records pending.
C19_DryRunNoEffect ==
    [][dryRun' =>
          /\ table' = table
          /\ head' = head
          /\ remote' = remote
          /\ gitCalls' = 0
          /\ ~pushed'
          /\ GetPendingCertifications(table') = GetPendingCertifications(table)]_vars
C19_Witness ==
    /\ dryRun
    /\ runs = MaxRuns
    /\ pc = "done"
    /\ \E i \in 1..Len(calls) : calls[i].success
    /\ \E r \in Records : IsPending(table[r])

====
